---- MODULE Spec2Model ----
(***************************************************************************)
(* Consent-gated financial data aggregation: the AccountAggregatorCollector *)
(* of src/src/data_processing/collectors.py and the webhook route of        *)
(* src/src/api/routes/data_collection.py.                                   *)
(*                                                                          *)
(* One action per operation; the network is an input of each action (the   *)
(* answer it gives to the call the operation makes).  `last` records the    *)
(* most recent step: the operation, its inputs and its outcome.             *)
(*                                                                          *)
(* Spec        the consent lifecycle: configure, create_consent_request,    *)
(*             get_consent_status, request_fi_data and the webhook          *)
(* SpecStatus  consent creation and status reconciliation over the full     *)
(*             alphabet of remote status values                             *)
(* SpecFetch   fetch_fi_data and normalization over every bounded payload   *)
(* SpecCreate  consent creation, by the collector and by the route, over    *)
(*             the durations a caller may ask for                           *)
(* SpecLoop    two requests at a time on the event loop of the routes       *)
(* SpecConfig  the operations that call the network, on a collector handed  *)
(*             complete and incomplete configs                              *)
(* SpecSession consents, the sessions requested with them and the fetches   *)
(* SpecRoute   the routes that create a consent and request its data        *)
(* SpecPoll    polling for the grant, with a caller that keeps calling      *)
(***************************************************************************)
EXTENDS Integers, Sequences, FiniteSets, TLC

VARIABLES
    is_configured,    \* BaseCollector._is_configured
    api_base_url,     \* AccountAggregatorCollector.api_base_url
    client_id,        \* AccountAggregatorCollector.client_id
    client_secret,    \* AccountAggregatorCollector.client_secret
    session_headers,  \* AccountAggregatorCollector.session.headers
    active_consents,  \* AccountAggregatorCollector.active_consents : handle -> ConsentRequest
    next_handle,      \* number of the next handle uuid.uuid4() yields
    sessions,         \* ids of the FI sessions the network issued to request_fi_data
    fi_payload,       \* the "Accounts" list the network holds for a fetch
    n_transactions,   \* the row count np.random.randint(50, 200) yields in this process
    tasks,            \* the HTTP requests the event loop holds and the position of each
    poller,           \* test_consent_status_monitoring: its position, attempt and last status
    network_active,   \* the network has come to answer every status call with ACTIVE
    now,              \* datetime.now(), in days
    last              \* the most recent step and its outcome

vars == <<is_configured, api_base_url, client_id, client_secret, session_headers,
          active_consents, next_handle, sessions, fi_payload, n_transactions, tasks, poller,
          network_active, now, last>>

cfgVars == <<is_configured, api_base_url, client_id, client_secret, session_headers>>

\* the caller of the collector and the network's mode
envVars == <<poller, network_active>>

----------------------------------------------------------------------------
(* Bounds *)

MaxConsents == 1
MaxTime == 2
MaxSessions == 1
MaxAccounts == 2
MaxTxns == 2

----------------------------------------------------------------------------
(* Values *)

None == "None"
NoError == [text |-> None, status |-> None, code |-> 0]
NoHeaders == [x_client_id |-> None, x_client_secret |-> None]

PENDING == "PENDING"
GRANTED == "GRANTED"
DENIED == "DENIED"
EXPIRED == "EXPIRED"
REVOKED == "REVOKED"

ConsentStatus == {PENDING, GRANTED, DENIED, EXPIRED, REVOKED}
TerminalStatus == {DENIED, EXPIRED, REVOKED}

NoId == 0
Handles == 1..MaxConsents
\* handles a caller may present: the issued ones and one that was never issued
CallerHandles == 1..(MaxConsents + 1)
\* duration_days a caller asks for
Durations == {1}

\* duration_days a caller hands to create_consent_request or posts to
\* /data-collection/initiate-aa-flow
CallerDurations == {-1, 0, 1, 365, 366}

\* config dictionaries handed to configure; a missing key is None
GoodConfig == [api_base_url |-> "https://fiu-uat.setu.co", client_id |-> "demo_client_id",
               client_secret |-> "demo_client_secret"]
Configs == {GoodConfig}

\* a key the config dictionary does not hold
Missing == "Missing"
\* configs a caller may hand to configure: a complete one, one of another
\* endpoint without the secret, and the empty dictionary
NoSecretConfig == [api_base_url |-> "https://other.example", client_id |-> "other_client_id",
                   client_secret |-> Missing]
EmptyConfig == [api_base_url |-> Missing, client_id |-> Missing, client_secret |-> Missing]
CallerConfigs == {GoodConfig, NoSecretConfig, EmptyConfig}

----------------------------------------------------------------------------
(* The network's answers: a transport exception or an HTTP response *)

\* POST /consents: 200 with a JSON body that may or may not carry "id",
\* 200 with a body that is not JSON, a non-200 status, or an exception
CreateResponses ==
    {[kind |-> "response", code |-> 200, json |-> TRUE, has_id |-> i] : i \in BOOLEAN}
    \cup {[kind |-> "response", code |-> 200, json |-> FALSE, has_id |-> FALSE]}
    \cup {[kind |-> "response", code |-> c, json |-> TRUE, has_id |-> FALSE] : c \in {201, 500}}
    \cup {[kind |-> "exception", code |-> 0, json |-> FALSE, has_id |-> FALSE]}

MainCreateResponses ==
    {r \in CreateResponses : r.json \/ r.kind = "exception"} \
    {r \in CreateResponses : r.code = 201}

\* the "status" member of the consent-status body: absent, not a string, or a string
StatusAbsent == [present |-> FALSE, is_str |-> FALSE, s |-> ""]
StatusNull == [present |-> TRUE, is_str |-> FALSE, s |-> ""]
StatusStr(x) == [present |-> TRUE, is_str |-> TRUE, s |-> x]

RemoteStrings == {"ACTIVE", "active", "Active", "PAUSED", "REVOKED", "revoked", "EXPIRED",
                  "PENDING", "REJECTED", "rejected", "", "APPROVED", "GRANTED", "ACTIVE "}
MainRemoteStrings == {"ACTIVE", "PAUSED", "REVOKED"}

\* GET /Consent/handle/{id}
StatusResponsesOver(strings) ==
    {[kind |-> "response", code |-> 200, json |-> TRUE, status |-> StatusStr(x)] : x \in strings}
    \cup {[kind |-> "response", code |-> 500, json |-> TRUE, status |-> StatusAbsent]}
    \cup {[kind |-> "exception", code |-> 0, json |-> FALSE, status |-> StatusAbsent]}

MainStatusResponses == StatusResponsesOver(MainRemoteStrings)

StatusResponses ==
    StatusResponsesOver(RemoteStrings)
    \cup {[kind |-> "response", code |-> 200, json |-> TRUE, status |-> f] :
            f \in {StatusAbsent, StatusNull}}
    \cup {[kind |-> "response", code |-> 200, json |-> FALSE, status |-> StatusAbsent]}
    \cup {[kind |-> "response", code |-> 404, json |-> TRUE, status |-> StatusAbsent]}

\* POST /FI/request
FiRequestResponses ==
    {[kind |-> "response", code |-> 200, json |-> TRUE],
     [kind |-> "response", code |-> 500, json |-> TRUE],
     [kind |-> "exception", code |-> 0, json |-> FALSE]}

----------------------------------------------------------------------------
(* configure *)

\* all([api_base_url, client_id, client_secret]): None and "" are falsy
Truthy(v) == v # None /\ v # ""

ConfigComplete(config) ==
    Truthy(config.api_base_url) /\ Truthy(config.client_id) /\ Truthy(config.client_secret)

\* config.get(key, default), v being the member of the key or Missing
ConfigGet(v, default) == IF v = Missing THEN default ELSE v

DefaultApiBaseUrl == "https://fiu-uat.setu.co"

\* the values configure reads from config: api_base_url has a default, the
\* credentials have none
ConfigRead(config) ==
    [api_base_url |-> ConfigGet(config.api_base_url, DefaultApiBaseUrl),
     client_id |-> ConfigGet(config.client_id, None),
     client_secret |-> ConfigGet(config.client_secret, None)]

\* the collector's configuration fields after configure(config): the fields
\* are assigned before the check, the headers and the flag after it
ConfigureEffect(cfg, config) ==
    LET read == ConfigRead(config) IN
    IF ConfigComplete(read)
    THEN [is_configured |-> TRUE,
          api_base_url |-> read.api_base_url,
          client_id |-> read.client_id,
          client_secret |-> read.client_secret,
          session_headers |-> [x_client_id |-> read.client_id,
                               x_client_secret |-> read.client_secret],
          ret |-> TRUE]
    ELSE [is_configured |-> cfg.is_configured,
          api_base_url |-> read.api_base_url,
          client_id |-> read.client_id,
          client_secret |-> read.client_secret,
          session_headers |-> cfg.session_headers,
          ret |-> FALSE]

CurrentCfg ==
    [is_configured |-> is_configured, api_base_url |-> api_base_url,
     client_id |-> client_id, client_secret |-> client_secret,
     session_headers |-> session_headers, ret |-> TRUE]

SetCfg(c) ==
    /\ is_configured' = c.is_configured
    /\ api_base_url' = c.api_base_url
    /\ client_id' = c.client_id
    /\ client_secret' = c.client_secret
    /\ session_headers' = c.session_headers

----------------------------------------------------------------------------
(* get_consent_status *)

\* str.upper() on the status strings the network is modelled to send
Upper(s) ==
    CASE s \in {"active", "Active"} -> "ACTIVE"
      [] s = "revoked" -> "REVOKED"
      [] s = "rejected" -> "REJECTED"
      [] OTHER -> s

\* the keys of status_mapping
RecognisedStatus == {"ACTIVE", "PAUSED", "REVOKED", "EXPIRED", "PENDING", "REJECTED"}

StatusMapping_DefaultGranted(api_status) ==
    CASE api_status = "PAUSED" -> PENDING
      [] api_status = "REVOKED" -> REVOKED
      [] api_status = "EXPIRED" -> EXPIRED
      [] api_status = "PENDING" -> PENDING
      [] api_status = "REJECTED" -> DENIED
      [] OTHER -> GRANTED

\* status_mapping.get(api_status, ConsentStatus.PENDING)
StatusMapping(api_status) ==
    CASE api_status = "ACTIVE" -> GRANTED
      [] api_status = "PAUSED" -> PENDING
      [] api_status = "REVOKED" -> REVOKED
      [] api_status = "EXPIRED" -> EXPIRED
      [] api_status = "PENDING" -> PENDING
      [] api_status = "REJECTED" -> DENIED
      [] OTHER -> PENDING

IsExpired_Never(consent, t) == FALSE

\* datetime.now() > consent.expires_at
IsExpired(consent, t) == t > consent.expires_at

ReconcileOutcome_KeepsTerminal(consent, resp) ==
    IF consent.status \in TerminalStatus THEN [store |-> None, ret |-> consent.status]
    ELSE IF resp.kind = "exception" THEN [store |-> None, ret |-> DENIED]
    ELSE IF resp.code # 200 THEN [store |-> None, ret |-> consent.status]
    ELSE IF ~resp.json THEN [store |-> None, ret |-> DENIED]
    ELSE IF resp.status.present /\ ~resp.status.is_str
         THEN [store |-> None, ret |-> DENIED]
    ELSE LET api_status == Upper(IF resp.status.present THEN resp.status.s ELSE "")
             mapped == StatusMapping(api_status)
         IN [store |-> mapped, ret |-> mapped]

\* the try block of get_consent_status once the call is made: the status to
\* store (None: the stored one is left) and the status to return
ReconcileOutcome(consent, resp) ==
    IF resp.kind = "exception" THEN [store |-> None, ret |-> DENIED]
    ELSE IF resp.code # 200 THEN [store |-> None, ret |-> consent.status]
    ELSE IF ~resp.json THEN [store |-> None, ret |-> DENIED]            \* response.json() raises
    ELSE IF resp.status.present /\ ~resp.status.is_str
         THEN [store |-> None, ret |-> DENIED]                          \* .upper() raises
    ELSE LET api_status == Upper(IF resp.status.present THEN resp.status.s ELSE "")
             mapped == StatusMapping(api_status)
         IN [store |-> mapped, ret |-> mapped]

GetConsentStatusEffect_DropsId(consents, h, t, resp) ==
    IF h \notin DOMAIN consents
    THEN [consents |-> consents, ret |-> DENIED, calls |-> <<>>]
    ELSE IF IsExpired(consents[h], t)
    THEN [consents |-> [consents EXCEPT ![h].status = EXPIRED, ![h].consent_id = NoId],
          ret |-> EXPIRED, calls |-> <<>>]
    ELSE IF consents[h].consent_id = NoId
    THEN [consents |-> consents, ret |-> consents[h].status, calls |-> <<>>]
    ELSE LET o == ReconcileOutcome(consents[h], resp)
         IN [consents |-> IF o.store = None THEN consents
                          ELSE [consents EXCEPT ![h].status = o.store],
             ret |-> o.ret,
             calls |-> <<"GET /Consent/handle">>]

\* get_consent_status(handle) at time t when the network answers resp: the
\* consent store afterwards, the value returned, the calls made
GetConsentStatusEffect(consents, h, t, resp) ==
    IF h \notin DOMAIN consents
    THEN [consents |-> consents, ret |-> DENIED, calls |-> <<>>]
    ELSE IF IsExpired(consents[h], t)
    THEN [consents |-> [consents EXCEPT ![h].status = EXPIRED], ret |-> EXPIRED, calls |-> <<>>]
    ELSE IF consents[h].consent_id = NoId
    THEN [consents |-> consents, ret |-> consents[h].status, calls |-> <<>>]
    ELSE LET o == ReconcileOutcome(consents[h], resp)
         IN [consents |-> IF o.store = None THEN consents
                          ELSE [consents EXCEPT ![h].status = o.store],
             ret |-> o.ret,
             calls |-> <<"GET /Consent/handle">>]

StoredStatus(consents, h) == IF h \in DOMAIN consents THEN consents[h].status ELSE None

\* ConsentStatus.value
StatusValue(status) ==
    CASE status = PENDING -> "pending"
      [] status = GRANTED -> "granted"
      [] status = DENIED -> "denied"
      [] status = EXPIRED -> "expired"
      [] status = REVOKED -> "revoked"

\* status_messages.get(status, "Unknown status") of GET /data-collection/consent-status
StatusMessage(status) ==
    CASE status = PENDING -> "Consent is pending user approval"
      [] status = GRANTED -> "Consent has been granted by user"
      [] status = DENIED -> "Consent was denied or is invalid"
      [] status = EXPIRED -> "Consent has expired"
      [] status = REVOKED -> "Consent has been revoked by user"
      [] OTHER -> "Unknown status"

\* the body GET /data-collection/consent-status answers, with HTTP 200, when
\* the collector returned status for the handle
ConsentStatusResponse(consent_handle, status) ==
    [consent_handle |-> consent_handle, status |-> StatusValue(status),
     message |-> StatusMessage(status)]

----------------------------------------------------------------------------
(* create_consent_request *)

\* the id the network assigns to the consent registered under handle h
RemoteIdOf(h) == 10 + h
RemoteIds == {RemoteIdOf(h) : h \in Handles}

\* the local consent record built before the network is called
NewConsent(h, t, duration_days) ==
    [status |-> PENDING, consent_id |-> NoId, consent_handle |-> h,
     duration_days |-> duration_days, created_at |-> t, expires_at |-> t + duration_days]

\* the try block of create_consent_request: the consent returned and whether
\* it was put into active_consents
CreateOutcome(consent, resp) ==
    IF resp.kind = "exception" \/ (resp.code = 200 /\ ~resp.json)
    THEN [consent |-> [consent EXCEPT !.status = DENIED], stored |-> FALSE]
    ELSE IF resp.code = 200
    THEN [consent |-> [consent EXCEPT
                         !.consent_id = IF resp.has_id THEN RemoteIdOf(consent.consent_handle)
                                        ELSE NoId,
                         !.status = PENDING],
          stored |-> TRUE]
    ELSE [consent |-> [consent EXCEPT !.status = DENIED], stored |-> TRUE]

CreateCalls_RetryOnFailure(resp) ==
    IF resp.kind = "exception" \/ resp.code # 200
    THEN <<"POST /consents", "POST /consents">>
    ELSE <<"POST /consents">>

\* the calls create_consent_request makes once the collector is configured:
\* self.session.post(url, json=payload), once, whatever the answer resp
CreateCalls(resp) == <<"POST /consents">>

\* active_consents[consent_handle] = consent_request
StoreConsent(consents, h, consent) ==
    [x \in DOMAIN consents \cup {h} |-> IF x = h THEN consent ELSE consents[x]]

----------------------------------------------------------------------------
(* POST /data-collection/initiate-aa-flow *)

\* the config get_aa_collector hands to configure when the collector of the
\* routes is not configured yet
RouteConfig == [api_base_url |-> "https://fiu-uat.setu.co", client_id |-> "test_client_id",
                client_secret |-> "test_client_secret"]

\* AAConsentRequest.duration_days: Field(ge=1, le=365)
DurationGe == 1
DurationLe == 365
DurationAccepted(duration_days) ==
    duration_days >= DurationGe /\ duration_days <= DurationLe

\* get_aa_collector(): the configuration fields of the collector it returns
GetAaCollectorEffect(cfg) ==
    IF cfg.is_configured THEN cfg ELSE ConfigureEffect(cfg, RouteConfig)

----------------------------------------------------------------------------
(* request_fi_data *)

StatusAllowsFetch_NotDenied(status) == status # DENIED

\* the call goes on only if get_consent_status(handle) == ConsentStatus.GRANTED
StatusAllowsFetch(status) == status = GRANTED

RequestFiDataEffect_DropsConsent(consents, h, t, sresp, firesp, n) ==
    [consents |-> [x \in DOMAIN consents \ {h} |-> consents[x]],
     ret |-> "ValueError", checked |-> None,
     error |-> [text |-> "Invalid consent handle", status |-> None, code |-> 0],
     calls |-> <<>>, session |-> 0]

\* request_fi_data(handle) at time t: sresp answers the status call, firesp the
\* FI request; n is the number of sessions the network has issued so far
RequestFiDataEffect(consents, h, t, sresp, firesp, n) ==
    IF h \notin DOMAIN consents
    THEN [consents |-> consents, ret |-> "ValueError", checked |-> None,
          error |-> [text |-> "Invalid consent handle", status |-> None, code |-> 0],
          calls |-> <<>>, session |-> 0]
    ELSE LET e == GetConsentStatusEffect(consents, h, t, sresp) IN
         IF ~StatusAllowsFetch(e.ret)
         THEN [consents |-> e.consents, ret |-> "ValueError", checked |-> e.ret,
               error |-> [text |-> "Consent not granted or expired", status |-> None, code |-> 0],
               calls |-> e.calls, session |-> 0]
         ELSE IF firesp.kind = "exception" \/ (firesp.code = 200 /\ ~firesp.json)
         THEN [consents |-> e.consents, ret |-> "failure", checked |-> e.ret,
               error |-> [text |-> "Failed to initiate FI data request", status |-> None, code |-> 0],
               calls |-> Append(e.calls, "POST /FI/request"), session |-> 0]
         ELSE IF firesp.code = 200
         THEN [consents |-> e.consents, ret |-> "success", checked |-> e.ret,
               error |-> NoError,
               calls |-> Append(e.calls, "POST /FI/request"), session |-> n + 1]
         ELSE [consents |-> e.consents, ret |-> "failure", checked |-> e.ret,
               error |-> [text |-> "API error", status |-> None, code |-> firesp.code],
               calls |-> Append(e.calls, "POST /FI/request"), session |-> 0]

\* POST /data-collection/request-fi-data for handle h: sresp1 answers the status
\* call of the handler, sresp2 the status call inside request_fi_data, firesp
\* the FI request. named is the status the detail of the answer gives, None
\* when the detail names no status.
RouteRequestFiDataEffect(consents, h, t, sresp1, sresp2, firesp, n) ==
    LET first == GetConsentStatusEffect(consents, h, t, sresp1) IN
    IF first.ret # GRANTED
    THEN [consents |-> first.consents, http |-> 400, named |-> first.ret,
          first |-> first.ret, second |-> None, calls |-> first.calls, session |-> 0]
    ELSE LET r == RequestFiDataEffect(first.consents, h, t, sresp2, firesp, n) IN
         [consents |-> r.consents,
          http |-> IF r.ret = "ValueError" THEN 500
                   ELSE IF r.ret = "failure" THEN 400 ELSE 200,
          named |-> None, first |-> first.ret, second |-> r.checked,
          calls |-> first.calls \o r.calls, session |-> r.session]

----------------------------------------------------------------------------
(* webhook *)

WebhookStatuses == {"ACTIVE", "REVOKED"}
\* consentId of a delivery: absent, the id of a consent, or an id never issued
WebhookIds == {NoId} \cup RemoteIds \cup {RemoteIdOf(MaxConsents + 1)}
WebhookRequests == {[consentId |-> i, status |-> s] : i \in WebhookIds, s \in WebhookStatuses}

WebhookStore_GrantsOnActive(consents, request) ==
    [h \in DOMAIN consents |->
        IF consents[h].consent_id = request.consentId /\ request.consentId # NoId
           /\ request.status = "ACTIVE"
        THEN [consents[h] EXCEPT !.status = GRANTED]
        ELSE consents[h]]

WebhookStore_ExtendExpiry(consents, request) ==
    [h \in DOMAIN consents |->
        IF consents[h].consent_id = request.consentId /\ request.consentId # NoId
        THEN [consents[h] EXCEPT !.expires_at = @ + 1]
        ELSE consents[h]]

\* the consent store after aa_consent_webhook(request): the handler logs the
\* notification and writes nothing
WebhookStore(consents, request) == consents

\* the handle of the stored consent a delivery names, 0 if there is none
HandleOfRemoteId(consents, id) ==
    IF id # NoId /\ \E h \in DOMAIN consents : consents[h].consent_id = id
    THEN CHOOSE h \in DOMAIN consents : consents[h].consent_id = id
    ELSE 0

WebhookAnswer_RejectsUnknown(consents, request) ==
    IF HandleOfRemoteId(consents, request.consentId) = 0
    THEN [http |-> 404, ret |-> "unknown consent"]
    ELSE [http |-> 200, ret |-> "received"]

\* what aa_consent_webhook answers the sender: the JSONResponse with status
\* "received", whatever the delivery names
WebhookAnswer(consents, request) == [http |-> 200, ret |-> "received"]

----------------------------------------------------------------------------
(* fetch_fi_data and _process_setu_fi_data *)

\* a raw numeric member of a transaction: a JSON number, a string holding a
\* number, a string holding no number, or no member at all
RawNumber(n) == [kind |-> "number", v |-> n]
RawNumStr(n) == [kind |-> "numstr", v |-> n]
RawText == [kind |-> "text", v |-> 0]
RawAbsent == [kind |-> "absent", v |-> 0]

\* float(txn.get(key, 0)): the value, or ok = FALSE when float() raises
Float(raw) ==
    CASE raw.kind = "number" -> [ok |-> TRUE, val |-> raw.v]
      [] raw.kind = "numstr" -> [ok |-> TRUE, val |-> raw.v]
      [] raw.kind = "absent" -> [ok |-> TRUE, val |-> 0]
      [] OTHER -> [ok |-> FALSE, val |-> 0]

Null == [null |-> TRUE, v |-> 0]
Val(n) == [null |-> FALSE, v |-> n]

\* summary_data of an account, the row emitted when it has no transactions
SummaryRecord(account) ==
    [account_id |-> account.accountId, transaction_id |-> Null, amount |-> Null,
     balance_after_txn |-> Null]

\* transaction_data of one transaction
TransactionRecord(account, txn) ==
    [account_id |-> account.accountId, transaction_id |-> Val(txn.transactionId),
     amount |-> Val(Float(txn.amount).val),
     balance_after_txn |-> Val(Float(txn.currentBalance).val)]

\* the loop over the transactions of one account, from the k-th on
RECURSIVE TxnRecords(_, _, _)
TxnRecords(account, k, acc) ==
    IF k > Len(account.transactions) THEN [raised |-> FALSE, records |-> acc]
    ELSE LET txn == account.transactions[k] IN
         IF ~Float(txn.amount).ok \/ ~Float(txn.currentBalance).ok
         THEN [raised |-> TRUE, records |-> <<>>]
         ELSE TxnRecords(account, k + 1, Append(acc, TransactionRecord(account, txn)))

\* the loop over the accounts, from the i-th on
RECURSIVE AccountRecords(_, _, _)
AccountRecords(accounts, i, acc) ==
    IF i > Len(accounts) THEN [raised |-> FALSE, records |-> acc]
    ELSE LET r == TxnRecords(accounts[i], 1, acc) IN
         IF r.raised THEN r
         ELSE IF Len(accounts[i].transactions) = 0
         THEN AccountRecords(accounts, i + 1, Append(r.records, SummaryRecord(accounts[i])))
         ELSE AccountRecords(accounts, i + 1, r.records)

\* np.random.randint(50, 200) after np.random.seed(hash(user_id) % 2**32): one
\* value of 50..199 for the life of the process; the ends of the range stand
\* for it
SampleSizeMin == 50
SampleSizeMax == 199
SampleSizes == {SampleSizeMin, SampleSizeMax}

\* _generate_sample_financial_data("demo_user") at time t: n synthetic rows of
\* one synthetic account, none of them a record of the payload, dated over the
\* 90 days that end at the moment of the call
SampleData(t, n) ==
    [sample |-> TRUE, user_id |-> "demo_user", account_id |-> "ACC_demo_user_001",
     generated_at |-> t, rows |-> n, records |-> <<>>]

\* _process_setu_fi_data(fi_data) at time t
ProcessSetuFiData(accounts, t, n) ==
    LET r == AccountRecords(accounts, 1, <<>>) IN
    IF r.raised THEN SampleData(t, n)
    ELSE [sample |-> FALSE, user_id |-> None, account_id |-> None,
          generated_at |-> 0, rows |-> Len(r.records), records |-> r.records]

\* the transactions of the i-th account of a payload, built from their raw members
MkTxns(i, shapes) ==
    [k \in DOMAIN shapes |->
        [transactionId |-> 10 * i + k, amount |-> shapes[k].amount,
         currentBalance |-> shapes[k].currentBalance]]

TxnShapes ==
    {[amount |-> a, currentBalance |-> RawNumber(100)] :
        a \in {RawNumber(5), RawNumStr(7), RawText, RawAbsent}}
    \cup {[amount |-> RawNumber(5), currentBalance |-> RawText]}

\* the transactions of a payload in the order of the loops: each is a pair of
\* the index of its account and its raw members
TxnLists(m, n) ==
    {f \in [1..n -> (1..m) \X TxnShapes] : \A k \in 1..(n - 1) : f[k][1] <= f[k + 1][1]}

\* the "Accounts" list of m accounts holding the transactions of list f
MkPayload(m, f) ==
    [i \in 1..m |->
        LET OfAccount(x) == x[1] = i
            own == SelectSeq(f, OfAccount)
        IN [accountId |-> i,
            transactions |-> MkTxns(i, [k \in DOMAIN own |-> own[k][2]])]]

\* every "Accounts" list of at most MaxAccounts accounts holding at most
\* MaxTxns transactions in all
Payloads ==
    UNION {UNION {{MkPayload(m, f) : f \in TxnLists(m, n)} : n \in 0..MaxTxns} :
              m \in 0..MaxAccounts}

\* GET /FI/fetch/{session_id}: the data the network holds, a body that is not
\* JSON, a non-200 status (202 while the session is processing), or an exception
FetchResponses(accounts) ==
    {[kind |-> "response", code |-> 200, json |-> TRUE, accounts |-> accounts],
     [kind |-> "response", code |-> 200, json |-> FALSE, accounts |-> <<>>],
     [kind |-> "response", code |-> 202, json |-> TRUE, accounts |-> <<>>],
     [kind |-> "response", code |-> 404, json |-> TRUE, accounts |-> <<>>],
     [kind |-> "exception", code |-> 0, json |-> FALSE, accounts |-> <<>>]}

\* fetch_fi_data(session_id) at time t of a collector whose base URL is url, in
\* a process whose sample frames have n rows
FetchFiDataEffect(url, session_id, t, resp, n) ==
    IF url = None                      \* "None/FI/fetch/..." is no URL: nothing is sent
    THEN [success |-> FALSE, data |-> None, records_collected |-> 0, calls |-> <<>>,
          error |-> [text |-> "Invalid URL", status |-> None, code |-> 0]]
    ELSE IF resp.kind = "exception" \/ (resp.code = 200 /\ ~resp.json)
    THEN [success |-> FALSE, data |-> None, records_collected |-> 0,
          calls |-> <<"GET /FI/fetch">>,
          error |-> [text |-> "exception", status |-> None, code |-> 0]]
    ELSE IF resp.code = 200
    THEN LET df == ProcessSetuFiData(resp.accounts, t, n) IN
         [success |-> TRUE, data |-> df, records_collected |-> df.rows,
          calls |-> <<"GET /FI/fetch">>, error |-> NoError]
    ELSE [success |-> FALSE, data |-> None, records_collected |-> 0,
          calls |-> <<"GET /FI/fetch">>,
          error |-> [text |-> "API error", status |-> None, code |-> resp.code]]

\* session ids a caller may present: the issued ones and one never issued
CallerSessions == 1..(MaxSessions + 1)

----------------------------------------------------------------------------
(* The routes on the event loop *)

\* two HTTP requests the server holds at the same time
Coroutines == {"r1", "r2"}

NoRequest == [consentId |-> NoId, status |-> ""]

\* a request slot: idle (no request), pending (the request arrived and its
\* handler has not started), running (the handler is inside the collector,
\* waiting for the network's answer); seen is the stored status the handler
\* found when it started
IdleTask == [pc |-> "idle", op |-> None, handle |-> 0, request |-> NoRequest, seen |-> None]

LoopFree_Threads == TRUE

\* the handlers are `async def` and call the collector without an await: the
\* event loop starts a handler only when no other handler is inside its body
LoopFree == \A q \in Coroutines : tasks[q].pc # "running"

----------------------------------------------------------------------------
(* AACollectorTester.test_consent_status_monitoring and the network's mode *)

max_attempts == 12

\* the polling loop: not started, inside the loop, or returned; status is the
\* last status get_consent_status gave it
IdlePoller == [pc |-> "idle", handle |-> 0, attempt |-> 0, status |-> None]

\* the answer of a network that has the consent as ACTIVE
ActiveAnswer == [kind |-> "response", code |-> 200, json |-> TRUE, status |-> StatusStr("ACTIVE")]

\* the answers the network may give to a status call in its present mode
StatusAnswersNow == IF network_active THEN {ActiveAnswer} ELSE MainStatusResponses

\* one pass of the loop body after get_consent_status returned status on the
\* attempt-th pass (counted from 0): return True on GRANTED, False on DENIED or
\* EXPIRED, otherwise count the attempt and leave the loop after max_attempts
PollStep(p, status) ==
    IF status = GRANTED THEN [p EXCEPT !.pc = "returned_true", !.status = status]
    ELSE IF status \in {DENIED, EXPIRED} THEN [p EXCEPT !.pc = "returned_false", !.status = status]
    ELSE IF p.attempt + 1 < max_attempts
    THEN [p EXCEPT !.attempt = @ + 1, !.status = status]
    ELSE [p EXCEPT !.pc = "timed_out", !.attempt = @ + 1, !.status = status]

----------------------------------------------------------------------------
(* The record of the most recent step *)

NoOp == [op |-> "none", handle |-> 0, pre |-> None, ret |-> None, checked |-> None,
         http |-> 0, error |-> NoError, calls |-> <<>>, net |-> <<>>,
         session |-> 0, dup |-> FALSE, data |-> None]

----------------------------------------------------------------------------
InitCollector ==
    /\ is_configured = FALSE
    /\ api_base_url = None
    /\ client_id = None
    /\ client_secret = None
    /\ session_headers = NoHeaders
    /\ active_consents = <<>>
    /\ next_handle = 1
    /\ sessions = {}
    /\ now = 0
    /\ tasks = [p \in Coroutines |-> IdleTask]
    /\ poller = IdlePoller
    /\ network_active = FALSE
    /\ last = NoOp

Init ==
    /\ InitCollector
    /\ fi_payload = <<>>
    /\ n_transactions = SampleSizeMin

\* time passes
Tick ==
    /\ now < MaxTime
    /\ now' = now + 1
    /\ last' = [NoOp EXCEPT !.op = "tick"]
    /\ UNCHANGED <<cfgVars, active_consents, next_handle, sessions, fi_payload,
                   n_transactions, envVars, tasks>>

\* AccountAggregatorCollector.configure(config)
Configure(config) ==
    LET c == ConfigureEffect(CurrentCfg, config) IN
    /\ SetCfg(c)
    /\ last' = [NoOp EXCEPT !.op = "configure", !.ret = IF c.ret THEN "True" ELSE "False"]
    /\ UNCHANGED <<active_consents, next_handle, sessions, fi_payload, n_transactions, envVars, tasks, now>>

\* AccountAggregatorCollector.create_consent_request(user_id, ..., duration_days)
CreateConsentRequest(duration_days, resp) ==
    /\ next_handle <= MaxConsents
    /\ IF ~is_configured
       THEN /\ last' = [NoOp EXCEPT !.op = "create_consent_request", !.ret = "ValueError",
                                    !.error = [text |-> "Collector not configured",
                                               status |-> None, code |-> 0]]
            /\ UNCHANGED <<active_consents, next_handle>>
       ELSE LET o == CreateOutcome(NewConsent(next_handle, now, duration_days), resp) IN
            /\ active_consents' = IF o.stored
                                  THEN StoreConsent(active_consents, next_handle, o.consent)
                                  ELSE active_consents
            /\ next_handle' = next_handle + 1
            /\ last' = [NoOp EXCEPT !.op = "create_consent_request", !.handle = next_handle,
                                    !.ret = o.consent.status,
                                    !.calls = CreateCalls(resp), !.net = <<resp>>]
    /\ UNCHANGED <<cfgVars, sessions, fi_payload, n_transactions, envVars, tasks, now>>

GetConsentStatus_StoppedClock(h, resp) ==
    LET e == GetConsentStatusEffect(active_consents, h, 0, resp) IN
    /\ active_consents' = e.consents
    /\ last' = [NoOp EXCEPT !.op = "get_consent_status", !.handle = h,
                            !.pre = StoredStatus(active_consents, h), !.ret = e.ret,
                            !.calls = e.calls,
                            !.net = IF e.calls = <<>> THEN <<>> ELSE <<resp>>]
    /\ UNCHANGED <<cfgVars, next_handle, sessions, fi_payload, n_transactions, envVars, tasks, now>>

\* AccountAggregatorCollector.get_consent_status(consent_handle)
GetConsentStatus(h, resp) ==
    LET e == GetConsentStatusEffect(active_consents, h, now, resp) IN
    /\ active_consents' = e.consents
    /\ last' = [NoOp EXCEPT !.op = "get_consent_status", !.handle = h,
                            !.pre = StoredStatus(active_consents, h), !.ret = e.ret,
                            !.calls = e.calls,
                            !.net = IF e.calls = <<>> THEN <<>> ELSE <<resp>>]
    /\ UNCHANGED <<cfgVars, next_handle, sessions, fi_payload, n_transactions, envVars, tasks, now>>

\* AccountAggregatorCollector.request_fi_data(consent_handle)
RequestFiData(h, sresp, firesp) ==
    LET e == RequestFiDataEffect(active_consents, h, now, sresp, firesp, Cardinality(sessions)) IN
    /\ e.session # 0 => Cardinality(sessions) < MaxSessions
    /\ active_consents' = e.consents
    /\ sessions' = IF e.session # 0 THEN sessions \cup {e.session} ELSE sessions
    /\ last' = [NoOp EXCEPT !.op = "request_fi_data", !.handle = h,
                            !.pre = StoredStatus(active_consents, h), !.ret = e.ret,
                            !.checked = e.checked, !.error = e.error, !.calls = e.calls,
                            !.net = IF e.calls = <<>> THEN <<>>
                                    ELSE IF Len(e.calls) = 1 /\ e.calls[1] = "GET /Consent/handle"
                                         THEN <<sresp>>
                                    ELSE IF Len(e.calls) = 1 THEN <<firesp>>
                                    ELSE <<sresp, firesp>>,
                            !.session = e.session]
    /\ UNCHANGED <<cfgVars, next_handle, fi_payload, n_transactions, envVars, tasks, now>>

\* POST /data-collection/webhook/aa-consent
AaConsentWebhook(request) ==
    /\ active_consents' = WebhookStore(active_consents, request)
    /\ last' = [NoOp EXCEPT !.op = "aa_consent_webhook",
                            !.handle = HandleOfRemoteId(active_consents, request.consentId),
                            !.pre = StoredStatus(active_consents,
                                        HandleOfRemoteId(active_consents, request.consentId)),
                            !.ret = WebhookAnswer(active_consents, request).ret,
                            !.http = WebhookAnswer(active_consents, request).http,
                            !.net = <<request>>,
                            !.dup = (last.op = "aa_consent_webhook" /\ last.net = <<request>>)]
    /\ UNCHANGED <<cfgVars, next_handle, sessions, fi_payload, n_transactions, envVars, tasks, now>>

\* POST /data-collection/initiate-aa-flow with a body whose duration_days is
\* given: the dependency get_aa_collector, the validation of the body, then
\* initiate_aa_flow
InitiateAaFlow(duration_days, resp) ==
    LET c == GetAaCollectorEffect(CurrentCfg) IN
    /\ next_handle <= MaxConsents
    /\ SetCfg(c)
    /\ IF ~DurationAccepted(duration_days)
       THEN /\ last' = [NoOp EXCEPT !.op = "initiate_aa_flow", !.ret = "ValidationError",
                                    !.http = 422]
            /\ UNCHANGED <<active_consents, next_handle>>
       ELSE LET o == CreateOutcome(NewConsent(next_handle, now, duration_days), resp) IN
            /\ active_consents' = IF o.stored
                                  THEN StoreConsent(active_consents, next_handle, o.consent)
                                  ELSE active_consents
            /\ next_handle' = next_handle + 1
            /\ last' = [NoOp EXCEPT !.op = "initiate_aa_flow", !.handle = next_handle,
                                    !.ret = o.consent.status,
                                    !.http = IF o.consent.status = DENIED THEN 400 ELSE 200,
                                    !.calls = CreateCalls(resp), !.net = <<resp>>]
    /\ UNCHANGED <<sessions, fi_payload, n_transactions, envVars, tasks, now>>

\* a GET /data-collection/consent-status?consent_handle=h arrives
StatusRequestArrives(p, h) ==
    /\ tasks[p].pc = "idle"
    /\ tasks' = [tasks EXCEPT ![p] = [IdleTask EXCEPT !.pc = "pending",
                                                     !.op = "consent_status", !.handle = h]]
    /\ UNCHANGED <<cfgVars, active_consents, next_handle, sessions, fi_payload,
                   n_transactions, envVars, now, last>>

\* a POST /data-collection/webhook/aa-consent arrives
WebhookArrives(p, request) ==
    /\ tasks[p].pc = "idle"
    /\ tasks' = [tasks EXCEPT ![p] = [IdleTask EXCEPT !.pc = "pending",
                                                     !.op = "aa_consent_webhook",
                                                     !.request = request]]
    /\ UNCHANGED <<cfgVars, active_consents, next_handle, sessions, fi_payload,
                   n_transactions, envVars, now, last>>

\* the handler of GET /consent-status starts: get_consent_status up to the point
\* where it either returns without a call or sends GET /Consent/handle/{id}
RouteStatusBegin(p) ==
    /\ tasks[p].pc = "pending"
    /\ tasks[p].op = "consent_status"
    /\ LoopFree
    /\ \E resp \in MainStatusResponses :
          LET h == tasks[p].handle
              e == GetConsentStatusEffect(active_consents, h, now, resp)
          IN IF e.calls = <<>>
             THEN /\ active_consents' = e.consents
                  /\ tasks' = [tasks EXCEPT ![p] = IdleTask]
                  /\ last' = [NoOp EXCEPT !.op = "get_consent_status", !.handle = h,
                                          !.pre = StoredStatus(active_consents, h),
                                          !.ret = e.ret, !.http = 200]
             ELSE /\ tasks' = [tasks EXCEPT ![p].pc = "running",
                                           ![p].seen = StoredStatus(active_consents, h)]
                  /\ UNCHANGED <<active_consents, last>>
    /\ UNCHANGED <<cfgVars, next_handle, sessions, fi_payload, n_transactions, envVars, now>>

\* the network answers the call of a running handler: the rest of
\* get_consent_status, on the consent object the handler holds
RouteStatusEnd(p, resp) ==
    /\ tasks[p].pc = "running"
    /\ LET h == tasks[p].handle
           o == ReconcileOutcome(active_consents[h], resp)
       IN /\ active_consents' = IF o.store = None THEN active_consents
                                 ELSE [active_consents EXCEPT ![h].status = o.store]
          /\ last' = [NoOp EXCEPT !.op = "get_consent_status", !.handle = h,
                                  !.pre = tasks[p].seen, !.ret = o.ret, !.http = 200,
                                  !.calls = <<"GET /Consent/handle">>]
    /\ tasks' = [tasks EXCEPT ![p] = IdleTask]
    /\ UNCHANGED <<cfgVars, next_handle, sessions, fi_payload, n_transactions, envVars, now>>

\* the handler of POST /webhook/aa-consent runs
RouteWebhook(p) ==
    /\ tasks[p].pc = "pending"
    /\ tasks[p].op = "aa_consent_webhook"
    /\ LoopFree
    /\ active_consents' = WebhookStore(active_consents, tasks[p].request)
    /\ tasks' = [tasks EXCEPT ![p] = IdleTask]
    /\ last' = [NoOp EXCEPT !.op = "aa_consent_webhook",
                            !.handle = HandleOfRemoteId(active_consents, tasks[p].request.consentId),
                            !.ret = WebhookAnswer(active_consents, tasks[p].request).ret,
                            !.http = WebhookAnswer(active_consents, tasks[p].request).http]
    /\ UNCHANGED <<cfgVars, next_handle, sessions, fi_payload, n_transactions, envVars, now>>

\* POST /data-collection/request-fi-data
RouteRequestFiData(h, sresp1, sresp2, firesp) ==
    LET c == GetAaCollectorEffect(CurrentCfg)
        e == RouteRequestFiDataEffect(active_consents, h, now, sresp1, sresp2, firesp,
                                      Cardinality(sessions))
    IN /\ e.session # 0 => Cardinality(sessions) < MaxSessions
       /\ SetCfg(c)
       /\ active_consents' = e.consents
       /\ sessions' = IF e.session # 0 THEN sessions \cup {e.session} ELSE sessions
       /\ last' = [NoOp EXCEPT !.op = "route_request_fi_data", !.handle = h,
                               !.pre = StoredStatus(active_consents, h),
                               !.ret = e.first, !.checked = e.second, !.http = e.http,
                               !.error = [NoError EXCEPT !.status = e.named],
                               !.calls = e.calls, !.session = e.session]
       /\ UNCHANGED <<next_handle, fi_payload, n_transactions, envVars, tasks, now>>

\* the network comes to hold the consents as ACTIVE and to answer every status
\* call from now on
NetworkTurnsActive ==
    /\ ~network_active
    /\ network_active' = TRUE
    /\ UNCHANGED <<cfgVars, active_consents, next_handle, sessions, fi_payload,
                   n_transactions, tasks, poller, now, last>>

\* test_consent_status_monitoring(consent_handle) is called
PollStart(h) ==
    /\ poller.pc = "idle"
    /\ poller' = [IdlePoller EXCEPT !.pc = "polling", !.handle = h]
    /\ UNCHANGED <<cfgVars, active_consents, next_handle, sessions, fi_payload,
                   n_transactions, tasks, network_active, now, last>>

\* one pass of the while loop of test_consent_status_monitoring
PollAttempt(resp) ==
    LET h == poller.handle
        e == GetConsentStatusEffect(active_consents, h, now, resp)
    IN /\ poller.pc = "polling"
       /\ active_consents' = e.consents
       /\ poller' = PollStep(poller, e.ret)
       /\ last' = [NoOp EXCEPT !.op = "get_consent_status", !.handle = h,
                               !.pre = StoredStatus(active_consents, h), !.ret = e.ret,
                               !.calls = e.calls,
                               !.net = IF e.calls = <<>> THEN <<>> ELSE <<resp>>]
       /\ UNCHANGED <<cfgVars, next_handle, sessions, fi_payload, n_transactions, tasks,
                      network_active, now>>

FetchFiData_ChecksConsent(session_id, resp) ==
    LET granted == \E h \in DOMAIN active_consents : active_consents[h].status = GRANTED
        e == FetchFiDataEffect(IF granted THEN api_base_url ELSE None, session_id, now, resp,
                               n_transactions)
    IN /\ last' = [NoOp EXCEPT !.op = "fetch_fi_data", !.session = session_id,
                               !.ret = IF e.success THEN "success" ELSE "failure",
                               !.error = e.error, !.calls = e.calls,
                               !.net = IF e.calls = <<>> THEN <<>> ELSE <<resp>>,
                               !.data = e.data]
       /\ UNCHANGED <<cfgVars, active_consents, next_handle, sessions, fi_payload,
                      n_transactions, envVars, tasks, now>>

\* AccountAggregatorCollector.fetch_fi_data(session_id)
FetchFiData(session_id, resp) ==
    LET e == FetchFiDataEffect(api_base_url, session_id, now, resp, n_transactions) IN
    /\ last' = [NoOp EXCEPT !.op = "fetch_fi_data", !.session = session_id,
                            !.ret = IF e.success THEN "success" ELSE "failure",
                            !.error = e.error, !.calls = e.calls,
                            !.net = IF e.calls = <<>> THEN <<>> ELSE <<resp>>,
                            !.data = e.data]
    /\ UNCHANGED <<cfgVars, active_consents, next_handle, sessions, fi_payload,
                   n_transactions, envVars, tasks, now>>

Next ==
    \/ Tick
    \/ \E config \in Configs : Configure(config)
    \/ \E d \in Durations, resp \in MainCreateResponses : CreateConsentRequest(d, resp)
    \/ \E h \in CallerHandles, resp \in MainStatusResponses : GetConsentStatus(h, resp)
    \/ \E h \in CallerHandles, sresp \in MainStatusResponses, firesp \in FiRequestResponses :
          RequestFiData(h, sresp, firesp)
    \/ \E request \in WebhookRequests : AaConsentWebhook(request)

Spec == Init /\ [][Next]_vars

\* consent creation and status reconciliation over every modelled remote answer
NextStatus ==
    \/ Tick
    \/ \E config \in Configs : Configure(config)
    \/ \E d \in Durations, resp \in CreateResponses : CreateConsentRequest(d, resp)
    \/ \E h \in CallerHandles, resp \in StatusResponses : GetConsentStatus(h, resp)

SpecStatus == Init /\ [][NextStatus]_vars

\* fetch_fi_data over every bounded payload
NextFetch ==
    \/ Tick
    \/ \E config \in Configs : Configure(config)
    \/ \E sid \in CallerSessions, resp \in FetchResponses(fi_payload) : FetchFiData(sid, resp)

InitFetch ==
    /\ InitCollector
    /\ fi_payload \in Payloads
    /\ n_transactions \in SampleSizes

SpecFetch == InitFetch /\ [][NextFetch]_vars

\* consent creation by a caller of the collector and by a client of the route,
\* over every modelled duration, and the status checks that follow
NextCreate ==
    \/ Tick
    \/ \E config \in Configs : Configure(config)
    \/ \E d \in CallerDurations, resp \in MainCreateResponses : CreateConsentRequest(d, resp)
    \/ \E d \in CallerDurations, resp \in MainCreateResponses : InitiateAaFlow(d, resp)
    \/ \E h \in CallerHandles, resp \in MainStatusResponses : GetConsentStatus(h, resp)

SpecCreate == Init /\ [][NextCreate]_vars

\* two requests at a time on the event loop of the server: status checks and
\* webhook deliveries for the consents the collector holds
NextLoop ==
    \/ Tick
    \/ LoopFree /\ \E config \in Configs : Configure(config)
    \/ LoopFree /\ \E d \in Durations, resp \in MainCreateResponses :
                      CreateConsentRequest(d, resp)
    \/ \E p \in Coroutines, h \in CallerHandles : StatusRequestArrives(p, h)
    \/ \E p \in Coroutines, request \in WebhookRequests : WebhookArrives(p, request)
    \/ \E p \in Coroutines : RouteStatusBegin(p)
    \/ \E p \in Coroutines, resp \in MainStatusResponses : RouteStatusEnd(p, resp)
    \/ \E p \in Coroutines : RouteWebhook(p)

SpecLoop == Init /\ [][NextLoop]_vars

\* every operation of the collector that calls the network, on a collector
\* that was handed complete and incomplete configs
NextConfig ==
    \/ Tick
    \/ \E config \in CallerConfigs : Configure(config)
    \/ \E d \in Durations, resp \in MainCreateResponses : CreateConsentRequest(d, resp)
    \/ \E h \in CallerHandles, resp \in MainStatusResponses : GetConsentStatus(h, resp)
    \/ \E h \in CallerHandles, sresp \in MainStatusResponses, firesp \in FiRequestResponses :
          RequestFiData(h, sresp, firesp)
    \/ \E sid \in CallerSessions, resp \in FetchResponses(fi_payload) : FetchFiData(sid, resp)

SpecConfig == Init /\ [][NextConfig]_vars

\* consents, the sessions requested with them and the fetches of any session id
NextSession ==
    \/ Tick
    \/ \E config \in Configs : Configure(config)
    \/ \E d \in Durations, resp \in MainCreateResponses : CreateConsentRequest(d, resp)
    \/ \E h \in CallerHandles, resp \in MainStatusResponses : GetConsentStatus(h, resp)
    \/ \E h \in CallerHandles, sresp \in MainStatusResponses, firesp \in FiRequestResponses :
          RequestFiData(h, sresp, firesp)
    \/ \E sid \in CallerSessions, resp \in FetchResponses(fi_payload) : FetchFiData(sid, resp)

SpecSession == Init /\ [][NextSession]_vars

\* the routes that create a consent and request its data, with the status
\* calls of other callers in between
NextRoute ==
    \/ Tick
    \/ \E d \in Durations, resp \in MainCreateResponses : InitiateAaFlow(d, resp)
    \/ \E h \in CallerHandles, resp \in MainStatusResponses : GetConsentStatus(h, resp)
    \/ \E h \in CallerHandles, sresp1 \in MainStatusResponses, sresp2 \in MainStatusResponses,
          firesp \in FiRequestResponses : RouteRequestFiData(h, sresp1, sresp2, firesp)

SpecRoute == Init /\ [][NextRoute]_vars

\* polling for the grant: a caller of get_consent_status and the loop of the
\* direct test, on a network that may come to answer ACTIVE for good
NextPoll ==
    \/ Tick
    \/ \E config \in Configs : Configure(config)
    \/ /\ next_handle = 1            \* the direct test creates one consent
       /\ \E d \in Durations, resp \in MainCreateResponses : CreateConsentRequest(d, resp)
    \/ NetworkTurnsActive
    \/ \E h \in CallerHandles, resp \in StatusAnswersNow : GetConsentStatus(h, resp)
    \/ \E h \in CallerHandles : PollStart(h)
    \/ \E resp \in StatusAnswersNow : PollAttempt(resp)

\* the caller keeps calling get_consent_status on every handle
KeepsCalling ==
    \A h \in Handles : WF_vars(\E resp \in StatusAnswersNow : GetConsentStatus(h, resp))

SpecPoll == Init /\ [][NextPoll]_vars /\ KeepsCalling

----------------------------------------------------------------------------
(* Properties *)

IsStatusOp == last.op = "get_consent_status"

\* C1: the stored status of a consent changes only along PENDING->GRANTED,
\* PENDING->DENIED, PENDING->REVOKED or PENDING->EXPIRED, so a stored DENIED,
\* EXPIRED or REVOKED never changes again.
C1_OnlyPendingMoves ==
    [][\A h \in DOMAIN active_consents :
          /\ h \in DOMAIN active_consents'
          /\ \/ active_consents'[h].status = active_consents[h].status
             \/ /\ active_consents[h].status = PENDING
                /\ active_consents'[h].status \in {GRANTED, DENIED, REVOKED, EXPIRED}]_vars

\* C2: get_consent_status on a consent stored as PENDING with now > expires_at
\* returns EXPIRED and stores EXPIRED, whatever the network would answer
\* (ACTIVE included).
C2_ExpiredPendingYieldsExpired ==
    [][\A h \in Handles, resp \in MainStatusResponses :
          (/\ h \in DOMAIN active_consents
           /\ active_consents[h].status = PENDING
           /\ now > active_consents[h].expires_at
           /\ GetConsentStatus(h, resp))
          => (last'.ret = EXPIRED /\ active_consents'[h].status = EXPIRED)]_vars

\* a PENDING consent the network knows was polled after its expiry
C2_Witness ==
    /\ IsStatusOp
    /\ last.pre = PENDING
    /\ last.handle \in DOMAIN active_consents
    /\ active_consents[last.handle].consent_id # NoId
    /\ now > active_consents[last.handle].expires_at
    /\ last.ret = EXPIRED

FiRequestSent ==
    \E i \in DOMAIN last.calls : last.calls[i] = "POST /FI/request"

\* C3: request_fi_data sends POST /FI/request and returns a session only for a
\* consent whose status check yields GRANTED and whose stored status is GRANTED
\* at that moment; for any other outcome of the check and for an unknown handle
\* nothing is sent and no session is returned.
C3_SessionOnlyWhenGranted ==
    last.op = "request_fi_data" =>
        /\ (FiRequestSent \/ last.session # 0 \/ last.ret = "success") =>
              /\ last.handle \in DOMAIN active_consents
              /\ last.checked = GRANTED
              /\ active_consents[last.handle].status = GRANTED
        /\ last.checked # GRANTED =>
              /\ ~FiRequestSent
              /\ last.session = 0
              /\ last.ret = "ValueError"

\* a session was issued
C3_Witness ==
    /\ last.op = "request_fi_data"
    /\ last.ret = "success"
    /\ last.session \in sessions
    /\ active_consents[last.handle].status = GRANTED

\* C4: request_fi_data on a consent whose status is PENDING fails with an error
\* that carries that status, and creates no session.
C4_NotGrantedErrorCarriesStatus ==
    (/\ last.op = "request_fi_data"
     /\ last.checked = PENDING
     /\ StoredStatus(active_consents, last.handle) = PENDING)
    => (/\ last.ret = "ValueError"
        /\ last.session = 0
        /\ last.error.status = PENDING)

CreateFailed ==
    /\ last.op = "create_consent_request"
    /\ last.net # <<>>
    /\ (last.net[1].kind = "exception" \/ last.net[1].code \notin 200..299)

\* C5: when the network call of create_consent_request fails (non-2xx response
\* or transport exception) the consent is stored under its handle with status
\* DENIED and is returned as DENIED.
C5_FailedCreateStoredDenied ==
    CreateFailed =>
        /\ last.ret = DENIED
        /\ last.handle \in DOMAIN active_consents
        /\ active_consents[last.handle].status = DENIED

StatusCallFailed ==
    /\ IsStatusOp
    /\ last.net # <<>>
    /\ last.net[1].kind = "exception"

\* C6: when the status call fails in transport, the stored status is unchanged
\* and a consent stored as PENDING or GRANTED is not reported as DENIED.
C6_TransportFailureNotDenied ==
    StatusCallFailed =>
        /\ StoredStatus(active_consents, last.handle) = last.pre
        /\ last.pre \in {PENDING, GRANTED} => last.ret # DENIED

\* the remote status strings status_mapping recognises, in any letter case
ActiveAnyCase == {"ACTIVE", "active", "Active"}
RecognisedAnyCase ==
    ActiveAnyCase \cup {"PAUSED", "REVOKED", "revoked", "EXPIRED", "PENDING",
                        "REJECTED", "rejected"}

StatusAnswered ==
    /\ IsStatusOp
    /\ last.net # <<>>
    /\ last.net[1].kind = "response"
    /\ last.net[1].code = 200
    /\ last.net[1].json

\* the text of the "status" member of the answer, "" when it is absent
AnsweredText == IF last.net[1].status.present THEN last.net[1].status.s ELSE ""

\* C7: the status mapping of get_consent_status is fail-closed: an answer whose
\* status is absent, empty or not a recognised value (letter case aside) yields
\* and stores PENDING, and GRANTED is returned or newly stored only for ACTIVE.
C7_MappingFailsClosed ==
    StatusAnswered =>
        /\ (/\ (last.net[1].status.is_str \/ ~last.net[1].status.present)
            /\ AnsweredText \notin RecognisedAnyCase)
           => (/\ last.ret = PENDING
               /\ active_consents[last.handle].status = PENDING)
        /\ (last.ret = GRANTED
            \/ (active_consents[last.handle].status = GRANTED /\ last.pre # GRANTED))
           => (/\ last.net[1].status.present
               /\ last.net[1].status.is_str
               /\ AnsweredText \in ActiveAnyCase)

\* an unrecognised value was answered and PENDING came back
C7_Witness ==
    /\ StatusAnswered
    /\ last.net[1].status.is_str
    /\ AnsweredText = "APPROVED"
    /\ last.ret = PENDING

WebhookNamesConsent ==
    /\ last.op = "aa_consent_webhook"
    /\ last.handle # 0

\* C8: a webhook delivery naming the remote id of a stored consent whose status
\* is not terminal stores the mapped status on it (ACTIVE on PENDING: GRANTED).
C8_WebhookPersistsStatus ==
    (WebhookNamesConsent /\ last.pre \notin TerminalStatus)
    => active_consents[last.handle].status = StatusMapping(Upper(last.net[1].status))

\* C9: delivering the same (remote id, status) pair a second time leaves the
\* consent store as the first delivery left it.
C9_WebhookIdempotent ==
    [][(last'.op = "aa_consent_webhook" /\ last'.dup) => active_consents' = active_consents]_vars

\* the same pair was delivered twice in a row for a stored consent
C9_Witness ==
    /\ WebhookNamesConsent
    /\ last.dup

HasTextAmount(accounts) ==
    \E i \in DOMAIN accounts : \E k \in DOMAIN accounts[i].transactions :
        accounts[i].transactions[k].amount.kind = "text"

\* the amount the record of a transaction is to carry
ExpectedAmount(txn) == IF txn.amount.kind = "text" THEN 0 ELSE txn.amount.v

\* C10: a payload holding a transaction whose amount is not numeric is still
\* normalized: that transaction's record has amount 0 and every other
\* transaction of the payload has its record with its own amount.
C10_MalformedAmountIsZero ==
    (/\ last.op = "fetch_fi_data"
     /\ last.ret = "success"
     /\ HasTextAmount(fi_payload))
    => (/\ ~last.data.sample
        /\ \A i \in DOMAIN fi_payload : \A k \in DOMAIN fi_payload[i].transactions :
              \E j \in DOMAIN last.data.records :
                  /\ last.data.records[j].account_id = fi_payload[i].accountId
                  /\ last.data.records[j].transaction_id
                        = Val(fi_payload[i].transactions[k].transactionId)
                  /\ last.data.records[j].amount
                        = Val(ExpectedAmount(fi_payload[i].transactions[k])))

FetchSucceeded ==
    /\ last.op = "fetch_fi_data"
    /\ last.ret = "success"

\* the transactions of a payload, each as the pair of the indexes of its
\* account and of itself
TxnIndexes(accounts) ==
    UNION {{<<i, k>> : k \in DOMAIN accounts[i].transactions} : i \in DOMAIN accounts}

\* the accounts of a payload that hold no transaction
EmptyAccounts(accounts) ==
    {i \in DOMAIN accounts : Len(accounts[i].transactions) = 0}

\* C11: for every payload of N accounts and M transactions in all, the frame
\* fetch_fi_data returns has exactly M rows plus one row for each account
\* without transactions: one record for each transaction, and exactly one
\* summary record, its transaction fields null, for each account without
\* transactions.
C11_RecordCount ==
    FetchSucceeded =>
        /\ last.data.rows
              = Cardinality(TxnIndexes(fi_payload)) + Cardinality(EmptyAccounts(fi_payload))
        /\ Len(last.data.records) = last.data.rows
        /\ \A x \in TxnIndexes(fi_payload) :
              Cardinality({j \in DOMAIN last.data.records :
                  /\ last.data.records[j].account_id = fi_payload[x[1]].accountId
                  /\ last.data.records[j].transaction_id
                        = Val(fi_payload[x[1]].transactions[x[2]].transactionId)}) = 1
        /\ \A i \in EmptyAccounts(fi_payload) :
              Cardinality({j \in DOMAIN last.data.records :
                  last.data.records[j] = [account_id |-> fi_payload[i].accountId,
                                          transaction_id |-> Null, amount |-> Null,
                                          balance_after_txn |-> Null]}) = 1

\* C12: fetch_fi_data is an idempotent read: another call on the same session
\* id that the network answers with the same payload, whenever it is made,
\* returns a frame equal to the one this call returned, for every payload, one
\* with a malformed field included.
C12_FetchIdempotent ==
    FetchSucceeded =>
        \A t \in 0..MaxTime :
            FetchFiDataEffect(api_base_url, last.session, t, last.net[1], n_transactions).data
                = last.data

\* C13: once the stored status of a consent is GRANTED, no get_consent_status
\* sets it back to PENDING, whatever the network answers (PAUSED, PENDING, an
\* unknown value, an empty one).
C13_GrantedNeverBackToPending ==
    [][\A h \in Handles, resp \in StatusResponses :
          (/\ h \in DOMAIN active_consents
           /\ active_consents[h].status = GRANTED
           /\ GetConsentStatus(h, resp))
          => active_consents'[h].status # PENDING]_vars

\* C14: get_consent_status on a handle whose stored status is DENIED, EXPIRED
\* or REVOKED returns the stored status at once and makes no network call.
C14_TerminalShortCircuits ==
    (IsStatusOp /\ last.pre \in TerminalStatus) =>
        /\ last.calls = <<>>
        /\ last.ret = last.pre

\* C15: get_consent_status on a handle the store does not hold signals that the
\* consent was not found: what the collector returns, and what the route
\* answers beside the handle, differ from what a stored DENIED consent gets.
C15_UnknownHandleIsNotFound ==
    (IsStatusOp /\ last.handle \notin DOMAIN active_consents) =>
        /\ last.ret # DENIED
        /\ \A h \in Handles :
              LET unknown == ConsentStatusResponse(h, last.ret)
                  denied == ConsentStatusResponse(h, DENIED)
              IN unknown # denied

\* C16: the consent_id of a consent is assigned at most once, by the answer to
\* a successful creation, and no later operation changes it: a stored consent
\* keeps its consent_id at every step, and a consent enters the store with a
\* consent_id only from a create_consent_request answered 200 with an id.
C16_ConsentIdAssignedOnce ==
    [][/\ \A h \in DOMAIN active_consents :
             /\ h \in DOMAIN active_consents'
             /\ active_consents'[h].consent_id = active_consents[h].consent_id
       /\ \A h \in DOMAIN active_consents' \ DOMAIN active_consents :
             active_consents'[h].consent_id # NoId =>
                 /\ last'.op = "create_consent_request"
                 /\ last'.handle = h
                 /\ last'.net[1].kind = "response"
                 /\ last'.net[1].code = 200
                 /\ last'.net[1].has_id
                 /\ active_consents'[h].consent_id = RemoteIdOf(h)]_vars

\* a consent that got its consent_id at creation was since polled past its
\* expiry and still has it
C16_Witness ==
    /\ IsStatusOp
    /\ last.handle \in DOMAIN active_consents
    /\ last.pre # EXPIRED
    /\ active_consents[last.handle].status = EXPIRED
    /\ active_consents[last.handle].consent_id = RemoteIdOf(last.handle)

\* C17: every consent create_consent_request builds has expires_at > created_at,
\* for every duration_days the operation accepts, and no later step changes
\* either of the two fields.
C17_ExpiresAfterCreated ==
    [][/\ \A h \in DOMAIN active_consents' \ DOMAIN active_consents :
             active_consents'[h].expires_at > active_consents'[h].created_at
       /\ \A h \in DOMAIN active_consents :
             /\ h \in DOMAIN active_consents'
             /\ active_consents'[h].expires_at = active_consents[h].expires_at
             /\ active_consents'[h].created_at = active_consents[h].created_at]_vars

\* the network answered the last fetch that its session is still processing
NotReadyAnswered ==
    /\ last.op = "fetch_fi_data"
    /\ last.net # <<>>
    /\ last.net[1].kind = "response"
    /\ last.net[1].code = 202

\* C18: a fetch the network answers with a not-yet-ready (processing) response
\* returns a NotReady outcome, which is not an error outcome (no failure, no
\* error message), and the next fetch of the same session, answered with the
\* data, succeeds with the normalized records of the payload.
C18_NotReadyIsNotAnError ==
    [][\A sid \in CallerSessions, resp \in FetchResponses(fi_payload) :
          FetchFiData(sid, resp) =>
              /\ (last'.calls # <<>> /\ resp.kind = "response" /\ resp.code = 202)
                 => (last'.ret # "failure" /\ last'.error = NoError)
              /\ (/\ NotReadyAnswered
                  /\ last.session = sid
                  /\ last'.calls # <<>>
                  /\ resp.kind = "response" /\ resp.code = 200 /\ resp.json)
                 => (/\ last'.ret = "success"
                     /\ ~last'.data.sample
                     /\ last'.data.rows = Cardinality(TxnIndexes(fi_payload))
                                            + Cardinality(EmptyAccounts(fi_payload)))]_vars

\* C19: operations on one consent handle are serialized: while a status
\* reconciliation is between its reading of the consent and its writing of the
\* status, no other reconciliation is in that position and the stored status
\* is still the one it read, so it never overwrites a status (a terminal one
\* included) that was stored after it started.
C19_SameHandleSerialized ==
    \A p \in Coroutines :
        tasks[p].pc = "running" =>
            /\ \A q \in Coroutines \ {p} : tasks[q].pc # "running"
            /\ StoredStatus(active_consents, tasks[p].handle) = tasks[p].seen

\* a reconciliation is waiting for the network while another request for the
\* same consent, a status check or a delivery naming it, is held by the loop
C19_Witness ==
    \E p \in Coroutines, q \in Coroutines :
        /\ p # q
        /\ tasks[p].pc = "running"
        /\ tasks[q].pc = "pending"
        /\ \/ tasks[q].op = "consent_status" /\ tasks[q].handle = tasks[p].handle
           \/ /\ tasks[q].op = "aa_consent_webhook"
              /\ HandleOfRemoteId(active_consents, tasks[q].request.consentId) = tasks[p].handle

\* how many times a call was made in a list of calls
CountCalls(calls, call) == Cardinality({i \in DOMAIN calls : calls[i] = call})

\* C20: the collector never retries an effectful create: one invocation of
\* create_consent_request sends at most one POST /consents and one invocation
\* of request_fi_data at most one POST /FI/request, whatever the outcome (error
\* response or exception).
C20_CreatesNotRetried ==
    /\ last.op = "create_consent_request" => CountCalls(last.calls, "POST /consents") <= 1
    /\ last.op = "request_fi_data" => CountCalls(last.calls, "POST /FI/request") <= 1

\* a create_consent_request whose POST failed made that one call
C20_Witness ==
    /\ CreateFailed
    /\ CountCalls(last.calls, "POST /consents") = 1

\* C21: a webhook delivery whose remote id is that of no stored consent is
\* acknowledged (HTTP 200, "received": no error to the sender) and leaves every
\* stored consent as it was.
C21_UnknownRemoteIdDiscarded ==
    [][\A request \in WebhookRequests :
          (/\ HandleOfRemoteId(active_consents, request.consentId) = 0
           /\ AaConsentWebhook(request))
          => (/\ active_consents' = active_consents
              /\ last'.http = 200
              /\ last'.ret = "received")]_vars

\* a delivery named a remote id no consent of a non-empty store has
C21_Witness ==
    /\ last.op = "aa_consent_webhook"
    /\ last.handle = 0
    /\ last.net[1].consentId # NoId
    /\ DOMAIN active_consents # {}
    /\ last.http = 200

\* the answer the network gave to the outbound call the last operation is
\* named after; NoAnswer when the operation did not make that call
NoAnswer == [kind |-> "none", code |-> 0]

OutboundAnswer ==
    IF last.op \in {"create_consent_request", "get_consent_status", "fetch_fi_data"}
       /\ last.net # <<>>
    THEN last.net[1]
    ELSE IF last.op = "request_fi_data" /\ FiRequestSent
    THEN last.net[Len(last.net)]
    ELSE NoAnswer

\* C22: for each outbound operation (create consent, get consent status,
\* request fetch, fetch session) the outcome reported for a non-success HTTP
\* status carries that status code, which sets it apart from the outcome of a
\* connection or timeout failure.
C22_ProtocolErrorCarriesCode ==
    (OutboundAnswer.kind = "response" /\ OutboundAnswer.code \notin 200..299)
    => (/\ last.error # NoError
        /\ last.error.code = OutboundAnswer.code)

\* C23: a consent is never deleted: a handle that is in active_consents stays
\* there at every step, bound to the same consent (every field but the status
\* as it was), so the set of stored handles only grows.
C23_ConsentNeverDeleted ==
    [][\A h \in DOMAIN active_consents :
          /\ h \in DOMAIN active_consents'
          /\ [active_consents'[h] EXCEPT !.status = PENDING]
                = [active_consents[h] EXCEPT !.status = PENDING]]_vars

\* request_fi_data was refused for a consent with a terminal status, and the
\* consent is still stored under its handle
C23_Witness ==
    /\ last.op = "request_fi_data"
    /\ last.ret = "ValueError"
    /\ last.handle \in DOMAIN active_consents
    /\ active_consents[last.handle].consent_handle = last.handle
    /\ active_consents[last.handle].status \in TerminalStatus

\* C24: every outbound call of the collector (POST /consents, GET consent
\* status, POST /FI/request, GET /FI/fetch) carries both authentication
\* headers: an operation that made a call ran on a collector that configure
\* accepted and whose session holds x-client-id and x-client-secret.
C24_CallsCarryCredentials ==
    last.calls # <<>> =>
        /\ is_configured
        /\ Truthy(session_headers.x_client_id)
        /\ Truthy(session_headers.x_client_secret)

\* the network acknowledged the consent of handle h, which has not expired
AcknowledgedLive(h) ==
    /\ h \in DOMAIN active_consents
    /\ active_consents[h].consent_id # NoId
    /\ ~IsExpired(active_consents[h], now)

ReceivedGranted(h) ==
    /\ IsStatusOp
    /\ last.handle = h
    /\ last.ret = GRANTED

\* the polling loop of the direct test stops when it is given GRANTED
\* (returning True), DENIED or EXPIRED (returning False)
LoopStopsOnOutcome ==
    /\ poller.pc = "polling" => poller.status \notin {GRANTED, DENIED, EXPIRED}
    /\ poller.status = GRANTED => poller.pc = "returned_true"
    /\ poller.status \in {DENIED, EXPIRED} => poller.pc = "returned_false"

\* C25: polling reaches the grant: for a consent the network acknowledged and
\* that has not expired, once every status call succeeds and is answered
\* ACTIVE, a caller that keeps calling get_consent_status eventually receives
\* GRANTED; and the polling loop of the direct test stops on GRANTED, DENIED
\* or EXPIRED.
C25_PollingReachesGrant ==
    /\ \A h \in Handles : (network_active /\ AcknowledgedLive(h)) ~> ReceivedGranted(h)
    /\ []LoopStopsOnOutcome

\* C25, amended: the caller eventually receives GRANTED unless expires_at
\* passes before the call that would receive it (that call and every later
\* one return EXPIRED); and the polling loop of the direct test stops on
\* GRANTED, DENIED or EXPIRED.
C25_ReachesGrantUnlessExpired ==
    /\ \A h \in Handles :
          (network_active /\ AcknowledgedLive(h))
              ~> (ReceivedGranted(h) \/ ~AcknowledgedLive(h))
    /\ []LoopStopsOnOutcome

\* the loop returned True for a consent that was stored as REVOKED before the
\* network came to answer ACTIVE
C25_Witness ==
    /\ network_active
    /\ poller.pc = "returned_true"
    /\ last.pre = REVOKED
    /\ ReceivedGranted(poller.handle)
\* C26: POST /request-fi-data answers HTTP 400 naming the current status
\* whenever the consent is not GRANTED, whatever the two successive status
\* checks return: a consent that stops being GRANTED between the checks, or an
\* unknown handle, never produces a 500, and no fetch session is issued.
C26_NotGrantedAnswers400 ==
    (last.op = "route_request_fi_data" /\ (last.ret # GRANTED \/ last.checked # GRANTED))
        => /\ last.http = 400
           /\ last.error.status = (IF last.ret # GRANTED THEN last.ret ELSE last.checked)
           /\ last.session = 0

\* C27: once now > expires_at, every get_consent_status call on the consent
\* stores and returns EXPIRED without a network call, whatever status was
\* stored (PENDING, GRANTED, DENIED or REVOKED); expiry is permanent (the clock
\* does not go back and expires_at is never changed), so from then on no call
\* returns any other status.
C27_ExpiredForGood ==
    /\ [](\A h \in DOMAIN active_consents :
            (IsStatusOp /\ last.handle = h /\ now > active_consents[h].expires_at)
                => /\ last.ret = EXPIRED
                   /\ active_consents[h].status = EXPIRED
                   /\ last.calls = <<>>)
    /\ [][/\ now' >= now
          /\ \A h \in DOMAIN active_consents :
                /\ h \in DOMAIN active_consents'
                /\ active_consents'[h].expires_at = active_consents[h].expires_at]_vars

\* a consent the network knows, stored as GRANTED, was asked about after its
\* expiry and the network was not called
C27_Witness ==
    /\ IsStatusOp
    /\ last.pre = GRANTED
    /\ last.handle \in DOMAIN active_consents
    /\ active_consents[last.handle].consent_id # NoId
    /\ now > active_consents[last.handle].expires_at
    /\ last.ret = EXPIRED
    /\ last.calls = <<>>

\* the stored status of h is GRANTED after the step and was not before it
BecomesGranted(h) ==
    /\ h \in DOMAIN active_consents'
    /\ active_consents'[h].status = GRANTED
    /\ StoredStatus(active_consents, h) # GRANTED

\* the network answered r to a status call: 200 with status ACTIVE
AnswersActive(r) ==
    /\ r.kind = "response"
    /\ r.code = 200
    /\ r.json
    /\ r.status.present
    /\ r.status.is_str
    /\ Upper(r.status.s) = "ACTIVE"

\* the step held a get_consent_status call on h, a consent with a remote id
\* that had not expired, and the network answered it 200 with status ACTIVE
StatusCallGotActive(h) ==
    /\ last'.handle = h
    /\ h \in DOMAIN active_consents
    /\ active_consents[h].consent_id # NoId
    /\ now <= active_consents[h].expires_at
    /\ last'.calls # <<>>
    /\ last'.calls[1] = "GET /Consent/handle"
    /\ AnswersActive(last'.net[1])

\* C28: the stored status becomes GRANTED only by a get_consent_status call
\* that, for a consent with a remote id and now <= expires_at, receives 200
\* with status ACTIVE; no other operation (creation, fetch request, fetch,
\* webhook) sets GRANTED.
C28_GrantedOnlyByStatusCall ==
    [][\A h \in Handles :
          BecomesGranted(h) => (last'.op = "get_consent_status" /\ StatusCallGotActive(h))]_vars

\* C28, amended: the stored status becomes GRANTED only by a
\* get_consent_status call that, for a consent with a remote id and
\* now <= expires_at, receives 200 with status ACTIVE, made by a caller or by
\* request_fi_data as its check of the consent; creation and the webhook never
\* set GRANTED.
C28_GrantedOnlyByStatusCheck ==
    [][\A h \in Handles :
          BecomesGranted(h)
              => (/\ last'.op \in {"get_consent_status", "request_fi_data"}
                  /\ StatusCallGotActive(h))]_vars

\* request_fi_data found a PENDING consent ACTIVE at the network and stored
\* GRANTED
C28_Witness ==
    /\ last.op = "request_fi_data"
    /\ last.pre = PENDING
    /\ last.checked = GRANTED
    /\ last.handle \in DOMAIN active_consents
    /\ active_consents[last.handle].status = GRANTED
    /\ AnswersActive(last.net[1])

\* C29: fetch_fi_data neither reads nor changes the consent store: for every
\* session id, one never issued or one whose consent has since been REVOKED or
\* EXPIRED included, a collector that has a base URL issues the fetch call, and
\* active_consents is left unchanged.
C29_FetchIgnoresConsents ==
    [][(last'.op = "fetch_fi_data" /\ last'.session \in CallerSessions)
          => /\ active_consents' = active_consents
             /\ api_base_url # None => last'.calls = <<"GET /FI/fetch">>]_vars

\* the fetch call went out for a session id never issued while the only
\* consent is stored as REVOKED or EXPIRED
C29_Witness ==
    /\ last.op = "fetch_fi_data"
    /\ last.session \notin sessions
    /\ last.calls = <<"GET /FI/fetch">>
    /\ active_consents # <<>>
    /\ \A h \in DOMAIN active_consents : active_consents[h].status \in {REVOKED, EXPIRED}

\* C30: whenever configure returns False the collector is left not configured:
\* is_configured is False afterwards (so create_consent_request refuses) and
\* the base URL, the credentials and the session headers are those in force
\* before the call, for a first call and for a failing call that follows a
\* successful one.
C30_RefusedConfigureChangesNothing ==
    [][\A config \in CallerConfigs :
          (Configure(config) /\ last'.ret = "False")
              => /\ ~is_configured'
                 /\ api_base_url' = api_base_url
                 /\ client_id' = client_id
                 /\ client_secret' = client_secret
                 /\ session_headers' = session_headers]_vars

====
